---------------------------- MODULE Spec2Model ----------------------------
(* A model of src/app.py: the cached data loader get_stock_data (ticker      *)
(* normalisation, dispatch to the three data providers, the Open > 0 guard,  *)
(* the indicator pipeline, the final trim, the exception boundary and the    *)
(* st.cache_data(ttl=3600) memoisation) and the pure classifier              *)
(* analyze_market_risk.                                                      *)
(*                                                                           *)
(* Strings are sequences of one-character strings, so that strip, upper,     *)
(* isdigit, endswith and split act on characters.  Floating-point cells are  *)
(* exact rationals extended with NaN and the two infinities; the arithmetic  *)
(* follows IEEE-754 for division by zero and NaN propagation, and leaves out *)
(* rounding.  Spreads are counted in hundredths of a percentage point.       *)
EXTENDS Integers, Sequences, FiniteSets, TLC

VARIABLES now, cache, feed, nreq, req, result, calls, fetched, served, risk,
          spread, rounded

vars == <<now, cache, feed, nreq, req, result, calls, fetched, served, risk,
          spread, rounded>>

-----------------------------------------------------------------------------
(* Bounds of the model.                                                      *)

\* number of clock steps the cache specification follows
MaxTicks == 4
\* number of get_stock_data requests the router specification follows
MaxRequests == 1
\* largest lookback (days argument) the router and cache specifications use
MaxDays == 2
\* longest provider table of the router and cache specifications
MaxRows == 3
\* longest provider table of the indicator specification
MaxBars == 22
\* largest lookback the indicator specification uses
MaxLookback == 3
\* number of 0.05-point steps of the spread grid above its base
MaxRiskSteps == 30
\* number of quarter-tick steps of the price grid above zero
MaxPriceSteps == 8
\* longest series of spread observations
MaxObs == 7

-----------------------------------------------------------------------------
(* Program constants.                                                        *)

TTL == 3600
W5 == 5
W10 == 10
W20 == 20
RSI_PERIOD == 14
mfi_period == 10
MFI_NEUTRAL == 50
TICK == 50
WEEK_OBS == 5

\* one clock step of the model, in seconds (a third of the TTL)
Tick == TTL \div 3

-----------------------------------------------------------------------------
(* Characters and strings.                                                   *)

Digits == {"0", "1", "2", "3", "4", "5", "6", "7", "8", "9"}
Whitespace == {" "}

LowerLetters ==
    <<"a", "b", "c", "d", "e", "f", "g", "h", "i", "j", "k", "l", "m",
      "n", "o", "p", "q", "r", "s", "t", "u", "v", "w", "x", "y", "z">>
UpperLetters ==
    <<"A", "B", "C", "D", "E", "F", "G", "H", "I", "J", "K", "L", "M",
      "N", "O", "P", "Q", "R", "S", "T", "U", "V", "W", "X", "Y", "Z">>

LowerSet == {LowerLetters[i] : i \in 1..Len(LowerLetters)}

\* the capital of each small letter
UpperMap ==
    [c \in LowerSet |->
        UpperLetters[CHOOSE i \in 1..Len(LowerLetters) : LowerLetters[i] = c]]

\* str.upper on one character of the ASCII range
UpperChar(c) == IF c \in LowerSet THEN UpperMap[c] ELSE c

RECURSIVE LStrip(_)
LStrip(s) ==
    IF s # <<>> /\ Head(s) \in Whitespace THEN LStrip(Tail(s)) ELSE s

RECURSIVE RStrip(_)
RStrip(s) ==
    IF s # <<>> /\ s[Len(s)] \in Whitespace
    THEN RStrip(SubSeq(s, 1, Len(s) - 1)) ELSE s

Upper(s) == [i \in 1..Len(s) |-> UpperChar(s[i])]

\* the ticker is trimmed but its letters keep their case
clean_ticker_strip_only(ticker) ==
    IF ticker = <<>> THEN <<>> ELSE RStrip(LStrip(ticker))

clean_ticker(ticker) ==
    IF ticker = <<>> THEN <<>> ELSE Upper(RStrip(LStrip(ticker)))

\* str.isdigit: non-empty and every character a digit
IsDigit(s) == s # <<>> /\ \A i \in 1..Len(s) : s[i] \in Digits

EndsWith(s, suf) ==
    /\ Len(s) >= Len(suf)
    /\ SubSeq(s, Len(s) - Len(suf) + 1, Len(s)) = suf

\* str.split('.')[0]: the part before the first '.', the whole string if none
RECURSIVE SplitFirst(_)
SplitFirst(s) ==
    IF s = <<>> \/ Head(s) = "." THEN <<>>
    ELSE <<Head(s)>> \o SplitFirst(Tail(s))

-----------------------------------------------------------------------------
(* Floating-point cells: NaN, +inf, -inf, or an exact rational n/d, d > 0.   *)

RECURSIVE GCD(_, _)
GCD(a, b) == IF b = 0 THEN a ELSE GCD(b, a % b)

Abs(x) == IF x < 0 THEN -x ELSE x

NaN == [k |-> "nan"]

\* the rational n/d in lowest terms with a positive denominator (d # 0)
Fin(n, d) ==
    LET g == GCD(Abs(n), Abs(d))
        sg == IF d < 0 THEN -1 ELSE 1
    IN  [k |-> "num", n |-> sg * (n \div g), d |-> sg * (d \div g)]

Num(x) == [k |-> "num", n |-> x, d |-> 1]

IsNaN(v) == v.k = "nan"
IsNum(v) == v.k = "num"

FNeg(a) ==
    CASE a.k = "nan" -> NaN
      [] a.k = "inf" -> [k |-> "inf", s |-> -a.s]
      [] OTHER -> [k |-> "num", n |-> -a.n, d |-> a.d]

FAdd(a, b) ==
    CASE a.k = "nan" \/ b.k = "nan" -> NaN
      [] a.k = "inf" /\ b.k = "inf" -> IF a.s = b.s THEN a ELSE NaN
      [] a.k = "inf" -> a
      [] b.k = "inf" -> b
      [] a.d = 1 /\ b.d = 1 -> Num(a.n + b.n)
      [] OTHER -> Fin(a.n * b.d + b.n * a.d, a.d * b.d)

FSub(a, b) == FAdd(a, FNeg(b))

FMul(a, b) ==
    CASE a.k = "nan" \/ b.k = "nan" -> NaN
      [] a.k = "inf" /\ b.k = "inf" -> [k |-> "inf", s |-> a.s * b.s]
      [] a.k = "inf" ->
            IF b.n = 0 THEN NaN
            ELSE [k |-> "inf", s |-> IF b.n > 0 THEN a.s ELSE -a.s]
      [] b.k = "inf" ->
            IF a.n = 0 THEN NaN
            ELSE [k |-> "inf", s |-> IF a.n > 0 THEN b.s ELSE -b.s]
      [] a.d = 1 /\ b.d = 1 -> Num(a.n * b.n)
      [] OTHER -> Fin(a.n * b.n, a.d * b.d)

\* IEEE division: x/0 is +-inf for x # 0 and NaN for x = 0 (pandas does not
\* raise on a zero divisor)
FDiv(a, b) ==
    CASE a.k = "nan" \/ b.k = "nan" -> NaN
      [] a.k = "inf" /\ b.k = "inf" -> NaN
      [] a.k = "inf" ->
            [k |-> "inf", s |-> IF b.n < 0 THEN -a.s ELSE a.s]
      [] b.k = "inf" -> Num(0)
      [] b.n = 0 ->
            IF a.n = 0 THEN NaN
            ELSE [k |-> "inf", s |-> IF a.n > 0 THEN 1 ELSE -1]
      [] OTHER -> Fin(a.n * b.d, a.d * b.n)

\* comparisons are false as soon as one side is NaN
FLt(a, b) ==
    CASE a.k = "nan" \/ b.k = "nan" -> FALSE
      [] a.k = "inf" /\ b.k = "inf" -> a.s < b.s
      [] a.k = "inf" -> a.s < 0
      [] b.k = "inf" -> b.s > 0
      [] OTHER -> a.n * b.d < b.n * a.d

FGt(a, b) == FLt(b, a)
FLe(a, b) == FLt(a, b) \/ (a.k # "nan" /\ a = b)

-----------------------------------------------------------------------------
(* Tables.  A provider table is [hasVol, rows]; a row carries its date (its  *)
(* position in the provider's answer) and integer Open, High, Low, Close and *)
(* Volume.  cols says whether the table has the price columns (pd.DataFrame()*)
(* has none), hasVol whether it has a Volume column.                         *)

\* pd.DataFrame()
EmptyDF == [cols |-> FALSE, hasVol |-> FALSE, rows |-> <<>>]

IsEmptyDF(df) == df.rows = <<>>

NRows(df) == Len(df.rows)

\* a column of a table as a series of cells
Col(df, name) ==
    [i \in 1..NRows(df) |->
        CASE name = "Open" -> Num(df.rows[i].Open)
          [] name = "High" -> Num(df.rows[i].High)
          [] name = "Low" -> Num(df.rows[i].Low)
          [] name = "Close" -> Num(df.rows[i].Close)
          [] OTHER -> Num(df.rows[i].Volume)]

\* a series as a sequence of cells, each evaluated once
Series(xs) == SubSeq(xs, 1, Len(xs))

\* Series.shift(1)
Shift1(xs) == [i \in 1..Len(xs) |-> IF i = 1 THEN NaN ELSE xs[i - 1]]

\* Series.diff()
Diff(xs) ==
    LET prev == Shift1(xs)
    IN  [i \in 1..Len(xs) |-> FSub(xs[i], prev[i])]

RECURSIVE SumRange(_, _, _)
SumRange(xs, lo, hi) ==
    IF lo > hi THEN Num(0) ELSE FAdd(SumRange(xs, lo, hi - 1), xs[hi])

\* Series.sum(): NaN cells are skipped
RECURSIVE SumSkipNaN(_, _)
SumSkipNaN(xs, hi) ==
    IF hi = 0 THEN Num(0)
    ELSE IF IsNaN(xs[hi]) THEN SumSkipNaN(xs, hi - 1)
    ELSE FAdd(SumSkipNaN(xs, hi - 1), xs[hi])

\* a rolling sum with min_periods = 1: short windows are summed as they are
RollingSumPartial(xs, w) ==
    [i \in 1..Len(xs) |-> SumRange(xs, IF i < w THEN 1 ELSE i - w + 1, i)]

\* Series.rolling(w).sum(): NaN until the window holds w cells
RollingSum(xs, w) ==
    [i \in 1..Len(xs) |-> IF i < w THEN NaN ELSE SumRange(xs, i - w + 1, i)]

\* Series.rolling(w).mean()
RollingMean(xs, w) ==
    LET s == RollingSum(xs, w)
    IN  [i \in 1..Len(xs) |-> FDiv(s[i], Num(w))]

Square(xs) == [i \in 1..Len(xs) |-> FMul(xs[i], xs[i])]

\* the sample variance (ddof = 1) of the trailing w cells
RollingVar(xs, w) ==
    LET sum1 == RollingSum(xs, w)
        sum2 == RollingSum(Series(Square(xs)), w)
    IN  [i \in 1..Len(xs) |->
            LET s1 == sum1[i]
                s2 == sum2[i]
            IN  FDiv(FSub(s2, FDiv(FMul(s1, s1), Num(w))), Num(w - 1))]

\* Series.rolling(w).std(): the square root of the variance, kept symbolic
\* when the variance is not zero
RollingStd(xs, w) ==
    LET var == RollingVar(xs, w)
    IN  [i \in 1..Len(xs) |->
        LET v == var[i]
        IN  IF IsNum(v) /\ v.n # 0 THEN [k |-> "sqrt", r |-> v] ELSE v]

\* mid + sgn * (std * 2)
Band(mid, std, sgn) ==
    IF IsNaN(mid) \/ IsNaN(std) THEN NaN
    ELSE IF std.k = "sqrt" THEN [k |-> "surd", a |-> mid, c |-> 2 * sgn, r |-> std.r]
    ELSE FAdd(mid, FMul(std, Num(2 * sgn)))

\* delta.where(delta > 0, 0): cells failing the test, NaN included, become 0
WherePos(xs) == [i \in 1..Len(xs) |-> IF FGt(xs[i], Num(0)) THEN xs[i] ELSE Num(0)]
WhereNeg(xs) == [i \in 1..Len(xs) |-> IF FLt(xs[i], Num(0)) THEN xs[i] ELSE Num(0)]
NegS(xs) == [i \in 1..Len(xs) |-> FNeg(xs[i])]

\* Series.replace(0, np.nan)
ReplaceZeroNaN(xs) ==
    [i \in 1..Len(xs) |-> IF IsNum(xs[i]) /\ xs[i].n = 0 THEN NaN ELSE xs[i]]

\* Series.fillna(0)
FillNaZero(xs) == [i \in 1..Len(xs) |-> IF IsNaN(xs[i]) THEN Num(0) ELSE xs[i]]

\* 100 - (100 / (1 + r))
Oscillator(r) == FSub(Num(100), FDiv(Num(100), FAdd(Num(1), r)))

\* a zero mean loss is replaced by NaN before the division
RSIColumnLossNaN(df) ==
    LET delta == Series(Diff(Col(df, "Close")))
        gain == RollingMean(Series(WherePos(delta)), RSI_PERIOD)
        loss == ReplaceZeroNaN(Series(RollingMean(Series(NegS(WhereNeg(delta))), RSI_PERIOD)))
    IN  [i \in 1..NRows(df) |-> Oscillator(FDiv(gain[i], loss[i]))]

\* lines 173-177
RSIColumn(df) ==
    LET delta == Series(Diff(Col(df, "Close")))
        gain == RollingMean(Series(WherePos(delta)), RSI_PERIOD)
        loss == RollingMean(Series(NegS(WhereNeg(delta))), RSI_PERIOD)
    IN  [i \in 1..NRows(df) |-> Oscillator(FDiv(gain[i], loss[i]))]

\* (High + Low + Close) / 3
TypicalPrice(df) ==
    LET high == Col(df, "High")
        low == Col(df, "Low")
        close == Col(df, "Close")
    IN  [i \in 1..NRows(df) |-> FDiv(FAdd(FAdd(high[i], low[i]), close[i]), Num(3))]

\* the negative flow is divided by as it is, zero included
MFIColumnNoReplace(df) ==
    IF df.hasVol
    THEN LET vol == Series(FillNaZero(ReplaceZeroNaN(Col(df, "Volume"))))
         IN  IF SumSkipNaN(vol, Len(vol)) = Num(0)
             THEN [i \in 1..NRows(df) |-> Num(MFI_NEUTRAL)]
             ELSE LET tp == Series(TypicalPrice(df))
                      prev == Shift1(tp)
                      mf == [i \in 1..NRows(df) |-> FMul(tp[i], vol[i])]
                      pos == Series([i \in 1..NRows(df) |->
                                 IF FGt(tp[i], prev[i]) THEN mf[i] ELSE Num(0)])
                      neg == Series([i \in 1..NRows(df) |->
                                 IF FLt(tp[i], prev[i]) THEN mf[i] ELSE Num(0)])
                      pmf == RollingSum(pos, mfi_period)
                      nmf == Series(RollingSum(neg, mfi_period))
                  IN  [i \in 1..NRows(df) |-> Oscillator(FDiv(pmf[i], nmf[i]))]
    ELSE [i \in 1..NRows(df) |-> Num(MFI_NEUTRAL)]

\* lines 180-196
MFIColumn(df) ==
    IF df.hasVol
    THEN LET vol == Series(FillNaZero(ReplaceZeroNaN(Col(df, "Volume"))))
         IN  IF SumSkipNaN(vol, Len(vol)) = Num(0)
             THEN [i \in 1..NRows(df) |-> Num(MFI_NEUTRAL)]
             ELSE LET tp == Series(TypicalPrice(df))
                      prev == Shift1(tp)
                      mf == [i \in 1..NRows(df) |-> FMul(tp[i], vol[i])]
                      pos == Series([i \in 1..NRows(df) |->
                                 IF FGt(tp[i], prev[i]) THEN mf[i] ELSE Num(0)])
                      neg == Series([i \in 1..NRows(df) |->
                                 IF FLt(tp[i], prev[i]) THEN mf[i] ELSE Num(0)])
                      pmf == RollingSum(pos, mfi_period)
                      nmf == Series(RollingSum(neg, mfi_period))
                      nmfz == ReplaceZeroNaN(nmf)
                  IN  [i \in 1..NRows(df) |-> Oscillator(FDiv(pmf[i], nmfz[i]))]
    ELSE [i \in 1..NRows(df) |-> Num(MFI_NEUTRAL)]

\* the range of the bar itself, not of the bar before
PrevRangeSameBar(df) ==
    LET high == Col(df, "High")
        low == Col(df, "Low")
    IN  [i \in 1..NRows(df) |-> FSub(high[i], low[i])]

\* lines 199-201: k = 0.5
PrevRange(df) ==
    LET high == Shift1(Col(df, "High"))
        low == Shift1(Col(df, "Low"))
    IN  [i \in 1..NRows(df) |-> FSub(high[i], low[i])]

VolBreakout(df) ==
    LET open == Col(df, "Open")
        range == PrevRange(df)
    IN  [i \in 1..NRows(df) |-> FAdd(open[i], FMul(range[i], Fin(1, 2)))]

\* lines 159-201: the table with the derived columns appended
Augment(df) ==
    LET close == Series(Col(df, "Close"))
        ma5 == RollingMean(close, W5)
        ma10 == RollingMean(close, W10)
        ma20 == RollingMean(close, W20)
        mid == Series(RollingMean(close, W20))
        std == Series(RollingStd(close, W20))
        rsi == RSIColumn(df)
        mfi == MFIColumn(df)
        pr == PrevRange(df)
        vb == VolBreakout(df)
    IN  [cols |-> TRUE, hasVol |-> df.hasVol,
         rows |-> [i \in 1..NRows(df) |->
            [Date |-> df.rows[i].Date, Open |-> df.rows[i].Open,
             High |-> df.rows[i].High, Low |-> df.rows[i].Low,
             Close |-> df.rows[i].Close, Volume |-> df.rows[i].Volume,
             MA5 |-> ma5[i], MA10 |-> ma10[i], MA20 |-> ma20[i],
             BB_Mid |-> mid[i], BB_Up |-> Band(mid[i], std[i], 1),
             BB_Low |-> Band(mid[i], std[i], -1),
             RSI |-> rsi[i], MFI |-> mfi[i],
             Prev_Range |-> pr[i], Vol_Breakout_Price |-> vb[i]]]]

\* Series.iloc[-days:] for days >= 0: -0 is 0, so days = 0 slices from the
\* first row
ILocLast(rows, days) ==
    IF days = 0 \/ days >= Len(rows) THEN rows
    ELSE SubSeq(rows, Len(rows) - days + 1, Len(rows))

\* line 204
Trim(df, days) ==
    [cols |-> df.cols, hasVol |-> df.hasVol, rows |-> ILocLast(df.rows, days)]

\* the rows whose Open is positive, in their order
RECURSIVE RowsOpenPositive(_)
RowsOpenPositive(rows) ==
    IF rows = <<>> THEN <<>>
    ELSE (IF Head(rows).Open > 0 THEN <<Head(rows)>> ELSE <<>>)
         \o RowsOpenPositive(Tail(rows))

\* line 122: df = df[df['Open'] > 0]
FilterOpen(df) ==
    [cols |-> df.cols, hasVol |-> df.hasVol, rows |-> RowsOpenPositive(df.rows)]

-----------------------------------------------------------------------------
(* Dispatch: lines 95-152.                                                   *)

KS == <<".", "K", "S">>
KQ == <<".", "K", "Q">>

\* the allow-list holds the two bond yields only
BondSymbolsYieldsOnly ==
    { <<"K", "R", "1", "0", "Y", "T", "=", "R", "R">>,
      <<"J", "P", "1", "0", "Y", "T", "=", "X", "X">> }

\* line 127
BondSymbols ==
    { <<"K", "R", "1", "0", "Y", "T", "=", "R", "R">>,
      <<"J", "P", "1", "0", "Y", "T", "=", "X", "X">>,
      <<"F", "K", "S", "2", "0", "0">> }

\* line 134
FxSymbols ==
    { <<"U", "S", "D", "/", "K", "R", "W">>,
      <<"J", "P", "Y", "/", "K", "R", "W">> }

\* line 128: f"INVESTING:{ticker}"
InvestingPrefix == <<"I", "N", "V", "E", "S", "T", "I", "N", "G", ":">>

\* the suffix branch passes the ticker on with its suffix
DispatchKeepSuffix(t) ==
    IF IsDigit(t) /\ Len(t) = 6
    THEN [branch |-> "krx", adapter |-> "A", symbol |-> t]
    ELSE IF t \in BondSymbols
    THEN [branch |-> "investing", adapter |-> "B", symbol |-> InvestingPrefix \o t]
    ELSE IF t \in FxSymbols
    THEN [branch |-> "fx", adapter |-> "B", symbol |-> t]
    ELSE IF (EndsWith(t, KS) \/ EndsWith(t, KQ)) /\ IsDigit(SplitFirst(t))
    THEN [branch |-> "krx", adapter |-> "A", symbol |-> t]
    ELSE [branch |-> "yf", adapter |-> "C", symbol |-> t]

\* every .KS/.KQ ticker is cut at its first '.' and dispatched again
DispatchSuffixAlways(t) ==
    IF IsDigit(t) /\ Len(t) = 6
    THEN [branch |-> "krx", adapter |-> "A", symbol |-> t]
    ELSE IF t \in BondSymbols
    THEN [branch |-> "investing", adapter |-> "B", symbol |-> InvestingPrefix \o t]
    ELSE IF t \in FxSymbols
    THEN [branch |-> "fx", adapter |-> "B", symbol |-> t]
    ELSE IF EndsWith(t, KS) \/ EndsWith(t, KQ)
    THEN [branch |-> "recurse", adapter |-> "none", symbol |-> SplitFirst(t)]
    ELSE [branch |-> "yf", adapter |-> "C", symbol |-> t]

\* the branch a cleaned ticker takes and the symbol the branch passes on
Dispatch(t) ==
    IF IsDigit(t) /\ Len(t) = 6
    THEN [branch |-> "krx", adapter |-> "A", symbol |-> t]
    ELSE IF t \in BondSymbols
    THEN [branch |-> "investing", adapter |-> "B", symbol |-> InvestingPrefix \o t]
    ELSE IF t \in FxSymbols
    THEN [branch |-> "fx", adapter |-> "B", symbol |-> t]
    ELSE IF (EndsWith(t, KS) \/ EndsWith(t, KQ)) /\ IsDigit(SplitFirst(t))
    THEN [branch |-> "recurse", adapter |-> "none", symbol |-> SplitFirst(t)]
    ELSE [branch |-> "yf", adapter |-> "C", symbol |-> t]

-----------------------------------------------------------------------------
(* The body of get_stock_data after the provider has answered.  A feed is    *)
(* what a provider does when called: it raises, or it returns a table.       *)

\* the guard of line 122 is missing
KrxFrameUnguarded(df) == df

\* lines 112-122: the local exchange's table behind the Open > 0 guard
KrxFrame(df) == FilterOpen(df)

\* lines 110-152: df as the branch leaves it
BranchFrame(branch, df) == IF branch = "krx" THEN KrxFrame(df) ELSE df

\* the table is cut to the lookback first and the columns are derived from
\* what is left
IndicatorsTrimFirst(df, days) ==
    IF IsEmptyDF(df) THEN EmptyDF ELSE Augment(Trim(df, days))

\* lines 154-204
Indicators(df, days) ==
    IF IsEmptyDF(df) THEN EmptyDF ELSE Trim(Augment(df), days)

\* lines 95-204, the try block of a branch that calls a provider: the table
\* returned, or exc when an exception leaves the block.  The provider call
\* may raise; df['Open'] raises KeyError on a table without columns.
TryBlock(branch, f, days) ==
    IF f.status = "raise" \/ (branch = "krx" /\ ~f.df.cols)
    THEN [exc |-> TRUE, df |-> EmptyDF]
    ELSE [exc |-> FALSE, df |-> Indicators(BranchFrame(branch, f.df), days)]

\* the except clause lets the exception through
ExceptClauseReraise(o) == o

\* lines 206-208: except Exception returns pd.DataFrame()
ExceptClause(o) == IF o.exc THEN [exc |-> FALSE, df |-> EmptyDF] ELSE o

\* lines 94-208 for a branch that calls a provider
Compute(branch, f, days) == ExceptClause(TryBlock(branch, f, days))

-----------------------------------------------------------------------------
(* st.cache_data(ttl=3600): entries keyed by the call's arguments, each      *)
(* stored whole with the time of its creation.                               *)

Key(raw, days) == [ticker |-> raw, days |-> days]

\* an entry still answers at the very second its ttl runs out
HitInclusive(c, key, t) == key \in DOMAIN c /\ t <= c[key].created + TTL

\* an entry answers until ttl seconds after its creation
Hit(c, key, t) == key \in DOMAIN c /\ t < c[key].created + TTL

\* a table without rows is returned but not stored
PutNonEmpty(c, key, t, v) ==
    IF v.rows = <<>> THEN c
    ELSE [k \in DOMAIN c \cup {key} |->
            IF k = key THEN [created |-> t, value |-> v] ELSE c[k]]

\* the value returned is stored whole under the key, replacing what was there
Put(c, key, t, v) ==
    [k \in DOMAIN c \cup {key} |->
        IF k = key THEN [created |-> t, value |-> v] ELSE c[k]]

\* One call of the decorated get_stock_data at time t with cache c and
\* provider behaviour f: the value returned (or exc, when the call raises),
\* the cache afterwards and the provider calls made.  The recursive call of
\* line 146 is a call of the decorated function, so it reads and writes the
\* cache as well.  A call that raises stores nothing.
RECURSIVE Call(_, _, _, _, _)
Call(raw, days, c, t, f) ==
    LET key == Key(raw, days)
    IN  IF Hit(c, key, t)
        THEN [exc |-> FALSE, value |-> c[key].value, cache |-> c, calls |-> <<>>]
        ELSE LET d == Dispatch(clean_ticker(raw))
             IN  IF d.branch = "recurse"
                 THEN LET inner == Call(d.symbol, days, c, t, f)
                      IN  [exc |-> inner.exc,
                           value |-> inner.value,
                           cache |-> IF inner.exc THEN inner.cache
                                     ELSE Put(inner.cache, key, t, inner.value),
                           calls |-> inner.calls]
                 ELSE LET o == Compute(d.branch, f, days)
                      IN  [exc |-> o.exc,
                           value |-> o.df,
                           cache |-> IF o.exc THEN c ELSE Put(c, key, t, o.df),
                           calls |-> <<[adapter |-> d.adapter, symbol |-> d.symbol,
                                        branch |-> d.branch]>>]

-----------------------------------------------------------------------------
(* analyze_market_risk: lines 241-271.  An input is None, NaN or a number.   *)

NoneVal == [k |-> "none"]

\* the level test reads >= 4.0
analyze_market_risk_ge(current_spread, prev_spread_1week_ago) ==
    IF current_spread = NoneVal \/ prev_spread_1week_ago = NoneVal
    THEN "UNKNOWN"
    ELSE IF IsNaN(current_spread) \/ IsNaN(prev_spread_1week_ago)
    THEN "UNKNOWN"
    ELSE IF FLe(Num(4), current_spread)
    THEN "RISK_ON"
    ELSE LET change == FSub(current_spread, prev_spread_1week_ago)
         IN  IF FLt(current_spread, Num(3))
             THEN IF FLe(Fin(20, 100), change) THEN "CAUTION" ELSE "RISK_OFF"
             ELSE IF FLe(Fin(15, 100), change) THEN "CAUTION" ELSE "NEUTRAL"

analyze_market_risk(current_spread, prev_spread_1week_ago) ==
    IF current_spread = NoneVal \/ prev_spread_1week_ago = NoneVal
    THEN "UNKNOWN"
    ELSE IF IsNaN(current_spread) \/ IsNaN(prev_spread_1week_ago)
    THEN "UNKNOWN"
    ELSE IF FGt(current_spread, Num(4))
    THEN "RISK_ON"
    ELSE LET change == FSub(current_spread, prev_spread_1week_ago)
         IN  IF FLt(current_spread, Num(3))
             THEN IF FLe(Fin(20, 100), change) THEN "CAUTION" ELSE "RISK_OFF"
             ELSE IF FLe(Fin(15, 100), change) THEN "CAUTION" ELSE "NEUTRAL"

-----------------------------------------------------------------------------
(* The spread series and the macro view's choice of its two values.          *)

\* Series.dropna(): the cells that are numbers, in their order
RECURSIVE DropNaN(_)
DropNaN(xs) ==
    IF xs = <<>> THEN <<>>
    ELSE (IF IsNaN(Head(xs)) THEN <<>> ELSE <<Head(xs)>>) \o DropNaN(Tail(xs))

\* lines 212-239: the observations of the provider, oldest first, without
\* the missing ones; the empty table when the provider fails or has none
get_high_yield_spread(f) ==
    IF f.status = "raise" THEN <<>> ELSE DropNaN(f.series)

\* lines 455-456: df_hy['Spread'].iloc[-1]
CurrentSpread(df_hy) == df_hy[Len(df_hy)]

\* lines 458-463: iloc[-5] when there are five observations, else the
\* current value
PrevSpread(df_hy) ==
    IF Len(df_hy) >= WEEK_OBS THEN df_hy[Len(df_hy) - WEEK_OBS + 1]
    ELSE CurrentSpread(df_hy)

-----------------------------------------------------------------------------
(* The price helpers of the page: lines 37-52.                               *)

\* lines 37-39: the suffix alone decides
is_korean_stock(ticker) ==
    LET t == clean_ticker(ticker)
    IN  EndsWith(t, KS) \/ EndsWith(t, KQ)

\* the built-in round(x) on a finite x = n/d: the nearest integer, a tie
\* going to the even neighbour
RoundHalfEven(x) ==
    LET t == 2 * x.n + x.d
        f == t \div (2 * x.d)
    IN  IF t % (2 * x.d) = 0 /\ f % 2 # 0 THEN f - 1 ELSE f

\* round() raises on NaN and on an infinity
Raised == [k |-> "raise"]

\* lines 49-52
round_price_if_korean(price, ticker) ==
    IF is_korean_stock(ticker)
    THEN IF IsNum(price)
         THEN Num(RoundHalfEven(FDiv(price, Num(TICK))) * TICK)
         ELSE Raised
    ELSE price

-----------------------------------------------------------------------------
(* Inputs: raw ticker strings, provider behaviours, spreads.                 *)

T005930 == <<"0", "0", "5", "9", "3", "0">>
T000660 == <<"0", "0", "0", "6", "6", "0">>
T123456 == <<"1", "2", "3", "4", "5", "6">>
TSLA == <<"T", "S", "L", "A">>

RouterTickers ==
    { T005930, T000660, T123456,
      T005930 \o KS, T005930 \o KQ, T000660 \o KS, T123456 \o KQ,
      <<" ">> \o T005930 \o <<".", "k", "s", " ">>,
      <<"1", "2", "3", "4", "5">> \o KS,
      <<"A", "A", "P", "L">> \o KS,
      TSLA, <<" ", "t", "s", "l", "a", " ">>,
      <<"K", "R", "1", "0", "Y", "T", "=", "R", "R">>,
      <<"F", "K", "S", "2", "0", "0">>,
      <<"U", "S", "D", "/", "K", "R", "W">>,
      <<>>, <<" ", " ">>,
      <<"J", "P", "1", "0", "Y", "T", "=", "X", "X">>,
      <<"J", "P", "Y", "/", "K", "R", "W">>,
      <<"k", "r", "1", "0", "y", "t", "=", "r", "r">>,
      <<"u", "s", "d", "/", "k", "r", "w", " ">>,
      <<"^", "K", "S", "1", "1">>,
      <<"K", "R", "1", "0", "Y", "T">> }

CacheTickers == { T005930, T005930 \o KS, TSLA }

PipelineTickers == { T005930, TSLA }

\* Bar i of a synthetic provider table of shape p: a trend (slope) with an
\* alternating swing (amp) around base, a range that alternates between 2
\* and 3, and placeholder rows with Open <= 0 where p.gap says so.
Bar(i, p) ==
    LET c == p.base + p.slope * i + (IF i % 2 = 0 THEN p.amp ELSE 0)
    IN  [Date |-> i,
         Open |-> CASE p.gap = "first" /\ i % 11 = 1 -> 0
                    [] p.gap = "third" /\ i % 11 = 3 -> -1
                    [] OTHER -> c,
         High |-> c + 1 + (i % 2),
         Low |-> c - 1,
         Close |-> c,
         Volume |-> IF p.vol = "vol" THEN 1 + (i % 3) ELSE 0]

Feed(n, p) ==
    [status |-> "ok",
     df |-> [cols |-> TRUE, hasVol |-> p.vol # "none",
             rows |-> [i \in 1..n |-> Bar(i, p)]]]

Raise == [status |-> "raise", df |-> EmptyDF]
\* the provider answers with a table that has no columns at all
Bare == [status |-> "ok", df |-> EmptyDF]
NoFeed == [status |-> "none", df |-> EmptyDF]

RouterShapes ==
    [base : {100}, slope : {1}, amp : {0}, vol : {"vol"},
     gap : {"none", "first", "third"}]

PipelineShapes ==
    [base : {100, -1}, slope : {-1, 0, 1}, amp : {0, 2},
     vol : {"vol", "zero", "none"}, gap : {"none", "first", "third"}]

RouterFeeds == {Raise, Bare} \cup {Feed(n, p) : n \in 0..MaxRows, p \in RouterShapes}

CacheFeeds ==
    {Raise} \cup {Feed(n, [base |-> 100, slope |-> 1, amp |-> 0, vol |-> "vol",
                           gap |-> "none"]) : n \in {0, 1, MaxDays}}

PipelineFeeds ==
    {Feed(n, p) : n \in {MaxBars - 10, MaxBars}, p \in PipelineShapes}

\* lookbacks: none, a short window, and one that covers the whole table
PipelineDays == {0, MaxLookback, MaxBars}

\* spreads in hundredths of a point: a grid across both level thresholds
SpreadGrid == {275 + 5 * i : i \in 0..MaxRiskSteps} \cup {299, 301, 399, 401}

RiskInputs == {NoneVal, NaN} \cup {Fin(x, 100) : x \in SpreadGrid}

\* a series of n observations that starts near base and moves by step, the
\* observation at position hole missing
SpreadObs(n, base, step, hole) ==
    [status |-> "ok",
     series |-> [i \in 1..n |-> IF i = hole THEN NaN ELSE Fin(base + step * i, 100)]]

SpreadFeeds ==
    {[status |-> "raise", series |-> <<>>]}
        \cup {SpreadObs(n, base, step, hole) :
                  n \in 0..MaxObs, base \in {280, 330, 370}, step \in {-5, 0, 5, 10},
                  hole \in {0, 3}}

\* prices: undefined, quarter ticks on both sides of zero (every second one
\* a tie of the rounding), a share price and a price with decimals
Prices ==
    {NaN, Num(71234), Fin(14257, 100)}
        \cup {Fin(TICK * i, 4) : i \in (-3)..MaxPriceSteps}

-----------------------------------------------------------------------------
(* State and actions.                                                        *)

NoRisk == [cur |-> NoneVal, prev |-> NoneVal, out |-> "none"]

\* no price has been rounded yet
NoRound == [price |-> NoneVal, ticker |-> <<>>, out |-> NoneVal]

InitCommon ==
    /\ now = 0
    /\ cache = [k \in {} |-> 0]
    /\ nreq = 0
    /\ req = Key(<<>>, 0)
    /\ result = EmptyDF
    /\ calls = <<>>
    /\ fetched = NoFeed
    /\ served = "none"
    /\ risk = NoRisk
    /\ spread = <<>>
    /\ rounded = NoRound

\* one call get_stock_data(raw, days) from the page, served by the cache or
\* by running the body
DoRequest(raw, days) ==
    LET r == Call(raw, days, cache, now, feed)
    IN  /\ req' = Key(raw, days)
        /\ served' = IF r.exc THEN "raised"
                      ELSE IF Hit(cache, Key(raw, days), now) THEN "hit" ELSE "miss"
        /\ result' = r.value
        /\ cache' = r.cache
        /\ calls' = r.calls
        /\ fetched' = IF r.calls = <<>> THEN NoFeed ELSE feed
        /\ UNCHANGED <<now, feed, risk, spread, rounded>>

Request(raw, days) ==
    /\ nreq < MaxRequests
    /\ nreq' = nreq + 1
    /\ DoRequest(raw, days)

CachedRequest(raw, days) ==
    /\ DoRequest(raw, days)
    /\ UNCHANGED nreq

\* time passes
Advance ==
    /\ now < MaxTicks * Tick
    /\ now' = now + Tick
    /\ UNCHANGED <<cache, feed, nreq, req, result, calls, fetched, served, risk,
                   spread, rounded>>

\* the provider starts to behave differently (fails, recovers, new data)
FeedChange(f) ==
    /\ f # feed
    /\ feed' = f
    /\ UNCHANGED <<now, cache, nreq, req, result, calls, fetched, served, risk,
                   spread, rounded>>

AnalyzeRisk(c, w) ==
    /\ risk' = [cur |-> c, prev |-> w, out |-> analyze_market_risk(c, w)]
    /\ UNCHANGED <<now, cache, feed, nreq, req, result, calls, fetched, served,
                   spread, rounded>>

\* one call round_price_if_korean(price, ticker) from the page
RoundPrice(price, ticker) ==
    /\ rounded' = [price |-> price, ticker |-> ticker,
                   out |-> round_price_if_korean(price, ticker)]
    /\ UNCHANGED <<now, cache, feed, nreq, req, result, calls, fetched, served,
                   risk, spread>>

\* lines 444-464: the macro view reads the spread series and, if it has a
\* row, shows the risk state of its latest value against an earlier one
MacroView(f) ==
    LET df_hy == get_high_yield_spread(f)
    IN  /\ spread' = df_hy
        /\ risk' = IF df_hy = <<>> THEN NoRisk
                    ELSE [cur |-> CurrentSpread(df_hy),
                          prev |-> PrevSpread(df_hy),
                          out |-> analyze_market_risk(CurrentSpread(df_hy),
                                                      PrevSpread(df_hy))]
        /\ UNCHANGED <<now, cache, feed, nreq, req, result, calls, fetched, served,
                       rounded>>

\* the router: every kind of ticker, short tables
Init == InitCommon /\ feed \in RouterFeeds
Next == \E raw \in RouterTickers, days \in 0..MaxDays : Request(raw, days)
Spec == Init /\ [][Next]_vars

\* the cache over time: three keys, a clock and a provider that changes
InitCache == InitCommon /\ feed \in CacheFeeds
NextCache ==
    \/ \E raw \in CacheTickers : CachedRequest(raw, MaxDays)
    \/ Advance
    \/ \E f \in CacheFeeds : FeedChange(f)
SpecCache == InitCache /\ [][NextCache]_vars

\* the indicator pipeline: tables long enough for every window
InitPipeline == InitCommon /\ feed \in PipelineFeeds
NextPipeline ==
    \E raw \in PipelineTickers, days \in PipelineDays : Request(raw, days)
SpecPipeline == InitPipeline /\ [][NextPipeline]_vars

\* the risk classifier on every pair of inputs
InitRisk == InitCommon /\ feed = Raise
NextRisk == \E c \in RiskInputs, w \in RiskInputs : AnalyzeRisk(c, w)
SpecRisk == InitRisk /\ [][NextRisk]_vars

\* the rounding helper on every price and every kind of ticker
InitRound == InitCommon /\ feed = Raise
NextRound == \E p \in Prices, t \in RouterTickers : RoundPrice(p, t)
SpecRound == InitRound /\ [][NextRound]_vars

\* the macro view on every spread series
InitMacro == InitCommon /\ feed = Raise
NextMacro == \E f \in SpreadFeeds : MacroView(f)
SpecMacro == InitMacro /\ [][NextMacro]_vars

-----------------------------------------------------------------------------
(* Properties.                                                               *)

\* the last request ran a provider call (it was not answered from the cache)
Fetched == served \in {"miss", "raised"} /\ calls # <<>>

\* the branch of the provider call the last request made
CallBranch == calls[1].branch

\* C1: whenever the provider called for a request raises or answers with
\* zero rows, for every branch of the dispatch and every lookback,
\* get_stock_data returns a table with zero rows and raises nothing.
C1_EmptyOnFailure ==
    (Fetched /\ (fetched.status = "raise" \/ fetched.df.rows = <<>>))
        => (served # "raised" /\ result.rows = <<>>)

\* a request on the local-exchange branch whose provider raised came back
\* with the empty table
C1_Witness ==
    /\ Fetched
    /\ fetched.status = "raise"
    /\ CallBranch = "krx"
    /\ served = "miss"
    /\ result = EmptyDF

SixDigitCodes == {T005930, T000660, T123456}

\* C2: a request for a 6-digit code s, for s.KS or for s.KQ calls no provider
\* but the local exchange's (adapter A), with the code s; on an empty cache it
\* calls it exactly once.
C2_SuffixSameCode ==
    \A s \in SixDigitCodes :
        (req.ticker \in {s, s \o KS, s \o KQ} /\ served \in {"miss", "raised"})
            => /\ \A i \in 1..Len(calls) :
                      calls[i].adapter = "A" /\ calls[i].symbol = s
               /\ (nreq = 1 => Len(calls) = 1)

\* a request for 005930.KS reached adapter A with 005930
C2_Witness ==
    /\ req.ticker = T005930 \o KS
    /\ served = "miss"
    /\ Len(calls) = 1
    /\ calls[1].adapter = "A"
    /\ calls[1].symbol = T005930

\* the decision table of the risk state, on spreads n/d compared by cross
\* multiplication
RiskTable(c, w) ==
    IF c.k # "num" \/ w.k # "num" THEN "UNKNOWN"
    ELSE IF c.n > 4 * c.d THEN "RISK_ON"
    ELSE LET ge20 == 100 * (c.n * w.d - w.n * c.d) >= 20 * c.d * w.d
             ge15 == 100 * (c.n * w.d - w.n * c.d) >= 15 * c.d * w.d
         IN  IF c.n < 3 * c.d
             THEN IF ge20 THEN "CAUTION" ELSE "RISK_OFF"
             ELSE IF ge15 THEN "CAUTION" ELSE "NEUTRAL"

\* C3: analyze_market_risk is the decision table: Unknown when an input is
\* not a number; else RiskOn when current > 4.0; else, with change = current
\* - weekAgo, below 3.0 Caution when change >= 0.2 and RiskOff otherwise, and
\* from 3.0 to 4.0 Caution when change >= 0.15 and Neutral otherwise.  Every
\* pair of inputs yields one of the five states.
C3_DecisionTable ==
    risk.out # "none"
        => /\ risk.out = RiskTable(risk.cur, risk.prev)
           /\ risk.out \in {"UNKNOWN", "RISK_ON", "CAUTION", "RISK_OFF", "NEUTRAL"}

\* at the level 4.0 itself the trend term still decides: 4.0 after 3.8 is
\* Caution, not RiskOn
C3_Witness ==
    /\ risk.cur = Fin(400, 100)
    /\ risk.prev = Fin(380, 100)
    /\ risk.out = "CAUTION"

\* the rows the pipeline works on: the provider's answer to the last
\* request as its branch leaves it (behind the Open > 0 guard on the
\* local-exchange branch)
Series0 == BranchFrame(CallBranch, fetched.df).rows

Min(a, b) == IF a < b THEN a ELSE b

\* C4: for every lookback >= 0 and every non-empty provider answer of n rows,
\* get_stock_data returns exactly the last min(lookback, n) rows of the
\* series, in their order, and never more than lookback rows.
C4_TrimToLookback ==
    (Fetched /\ served = "miss" /\ fetched.status = "ok" /\ fetched.df.rows # <<>>)
        => LET n == Len(Series0)
               m == Min(req.days, n)
           IN  /\ Len(result.rows) = m
               /\ Len(result.rows) <= req.days
               /\ \A i \in 1..Min(m, Len(result.rows)) :
                      result.rows[i].Date = Series0[n - m + i].Date

\* an entry for key that still answers at the current time
FreshEntry(key) == key \in DOMAIN cache /\ now < cache[key].created + TTL

\* a step that is a request: the clock and the provider stand still
RequestStep == now' = now /\ feed' = feed

\* C5 as stated: per key, the first request creates the entry by calling a
\* provider; every later request before creation time + TTL returns the
\* stored table and calls no provider; the first request after expiry calls
\* the provider again and replaces the entry as a whole.
C5_LifecycleAsStated ==
    [][RequestStep =>
        LET key == req'
        IN  IF FreshEntry(key)
            THEN /\ result' = cache[key].value
                 /\ calls' = <<>>
                 /\ cache' = cache
            ELSE /\ calls' # <<>>
                 /\ key \in DOMAIN cache'
                 /\ cache'[key] = [created |-> now, value |-> result']]_vars

\* C5, amended: per key, a request without a fresh entry runs the body and
\* stores its result as a whole new entry, and every request before creation
\* time + TTL returns the stored table, calls no provider and leaves the
\* cache alone.  The body calls a provider, except for a numeric code with a
\* .KS/.KQ suffix: there it is a cached request for the bare code with the
\* same lookback, which calls the provider (and creates the bare code's entry
\* too) only if that entry is absent or expired, and otherwise hands on the
\* bare code's stored table without any provider call.
C5_Lifecycle ==
    [][RequestStep =>
        LET key == req'
            d == Dispatch(clean_ticker(key.ticker))
            suffixed == d.branch = "recurse"
            ikey == Key(d.symbol, key.days)
            touched == IF suffixed THEN {key, ikey} ELSE {key}
        IN  IF FreshEntry(key)
            THEN /\ result' = cache[key].value
                 /\ calls' = <<>>
                 /\ cache' = cache
            ELSE /\ key \in DOMAIN cache'
                 /\ cache'[key] = [created |-> now, value |-> result']
                 /\ \A k \in DOMAIN cache \ touched : cache'[k] = cache[k]
                 /\ IF suffixed /\ FreshEntry(ikey)
                    THEN /\ calls' = <<>>
                         /\ result' = cache[ikey].value
                         /\ cache'[ikey] = cache[ikey]
                    ELSE /\ calls' # <<>>
                         /\ suffixed =>
                                cache'[ikey] = [created |-> now, value |-> result']]_vars

\* the entry of 005930.KS was created, after the entry of 005930 and while
\* that one still answered, without a provider call
C5_Witness ==
    /\ req = Key(T005930 \o KS, MaxDays)
    /\ served = "miss"
    /\ calls = <<>>
    /\ Key(T005930, MaxDays) \in DOMAIN cache
    /\ cache[req].created = now
    /\ cache[Key(T005930, MaxDays)].created < now

-----------------------------------------------------------------------------
(* Properties of the indicator columns.  A returned row is found in the      *)
(* series by its date; the windows are recomputed on the integers.           *)

\* the last request ran the pipeline and returned rows
Computed == Fetched /\ served = "miss" /\ result.rows # <<>>

ResultRows == {result.rows[i] : i \in 1..Len(result.rows)}

\* the position in the series of the bar with this date
Pos(date) == CHOOSE j \in 1..Len(Series0) : Series0[j].Date = date

\* the bars of the trailing window of w bars that ends at bar j, first bar
\* of the series excluded when steps (differences to the bar before) are meant
Steps(j, w) == {k \in (j - w + 1)..j : k >= 2}

NoLoss(j) == \A k \in Steps(j, RSI_PERIOD) : Series0[k].Close >= Series0[k - 1].Close
NoGain(j) == \A k \in Steps(j, RSI_PERIOD) : Series0[k].Close <= Series0[k - 1].Close

\* C6 as stated: on every bar where the trailing 14-bar mean of losses is
\* zero, RSI is undefined, whether the mean of gains is zero or positive.
C6_ZeroLossUndefined ==
    Computed =>
        \A r \in ResultRows :
            (Pos(r.Date) >= RSI_PERIOD /\ NoLoss(Pos(r.Date))) => IsNaN(r.RSI)

\* C6, amended: on every bar where the trailing 14-bar mean of losses is
\* zero, RSI is undefined if the mean of gains is zero as well, and is 100 if
\* the mean of gains is positive; a series of constant close has RSI
\* undefined on every bar, and nothing is raised.
C6_ZeroLoss ==
    Computed =>
        /\ \A r \in ResultRows :
              (Pos(r.Date) >= RSI_PERIOD /\ NoLoss(Pos(r.Date)))
                  => IF NoGain(Pos(r.Date)) THEN IsNaN(r.RSI) ELSE r.RSI = Num(100)
        /\ (\A k \in 1..Len(Series0) : Series0[k].Close = Series0[1].Close)
              => \A r \in ResultRows : IsNaN(r.RSI)

\* a returned bar behind 14 bars without a loss and with a gain carries 100
C6_Witness ==
    /\ Computed
    /\ \E r \in ResultRows :
          /\ Pos(r.Date) >= RSI_PERIOD
          /\ NoLoss(Pos(r.Date))
          /\ ~NoGain(Pos(r.Date))
          /\ r.RSI = Num(100)

RECURSIVE SumInts(_, _, _)
SumInts(f(_), lo, hi) == IF lo > hi THEN 0 ELSE f(hi) + SumInts(f, lo, hi - 1)

VolumeAt(k) == Series0[k].Volume
TotalVolume == SumInts(VolumeAt, 1, Len(Series0))

\* three times the typical price of bar k
TP3(k) == Series0[k].High + Series0[k].Low + Series0[k].Close

\* three times the negative money flow of bar k
NegFlow3(k) ==
    IF k >= 2 /\ TP3(k) < TP3(k - 1) THEN TP3(k) * Series0[k].Volume ELSE 0

Volumeless == ~fetched.df.hasVol \/ TotalVolume = 0

\* C7: if the series has no volume column or its volumes sum to zero, MFI is
\* 50 on every bar; otherwise MFI is undefined on every bar whose trailing-10
\* sum of negative money flow is zero.
C7_MFISpecialCases ==
    Computed =>
        IF Volumeless
        THEN \A r \in ResultRows : r.MFI = Num(50)
        ELSE \A r \in ResultRows :
                (/\ Pos(r.Date) >= mfi_period
                 /\ SumInts(NegFlow3, Pos(r.Date) - mfi_period + 1, Pos(r.Date)) = 0)
                    => IsNaN(r.MFI)

\* a returned bar of a series with volume, behind ten bars of which none
\* fell, has MFI undefined
C7_Witness ==
    /\ Computed
    /\ ~Volumeless
    /\ \E r \in ResultRows :
          /\ Pos(r.Date) >= mfi_period
          /\ SumInts(NegFlow3, Pos(r.Date) - mfi_period + 1, Pos(r.Date)) = 0
          /\ IsNaN(r.MFI)

\* undefined, or a number from 0 to 100
Percent(v) == IsNaN(v) \/ (IsNum(v) /\ 0 <= v.n /\ v.n <= 100 * v.d)

\* C8: for any input series, of any sign of prices and volumes, MFI lies in
\* [0, 100] on every bar where it is defined, and so does RSI.
C8_OscillatorRange ==
    Computed => \A r \in ResultRows : Percent(r.MFI) /\ Percent(r.RSI)

\* the warm-up cells of every column but MFI are undefined
WarmUpUndefined(r) ==
    LET j == Pos(r.Date)
    IN  /\ j < W5 => IsNaN(r.MA5)
        /\ j < W10 => IsNaN(r.MA10)
        /\ j < W20 => IsNaN(r.MA20) /\ IsNaN(r.BB_Mid) /\ IsNaN(r.BB_Up) /\ IsNaN(r.BB_Low)
        /\ j < RSI_PERIOD => IsNaN(r.RSI)

\* C9 as stated: for each rolling column with window N (MA5, MA10, MA20, the
\* three bands with N = 20, RSI with N = 14, MFI with N = 10) the value on
\* each of the first N - 1 bars of the series is undefined.
C9_WarmUpAsStated ==
    Computed =>
        \A r \in ResultRows :
            /\ WarmUpUndefined(r)
            /\ Pos(r.Date) < mfi_period => IsNaN(r.MFI)

\* C9, amended: the same for MA5, MA10, MA20, the three bands and RSI, and
\* for MFI when the series has a volume column whose sum is not zero; when it
\* has none, or the sum is zero, MFI is 50 on the first 9 bars as on every
\* other bar.
C9_WarmUp ==
    Computed =>
        \A r \in ResultRows :
            /\ WarmUpUndefined(r)
            /\ Pos(r.Date) < mfi_period =>
                  IF Volumeless THEN r.MFI = Num(50) ELSE IsNaN(r.MFI)

\* the whole table came back: bar 19 has MA20 undefined and bar 20 has it
\* defined, and bar 9 of a series without volume has MFI 50
C9_Witness ==
    /\ Computed
    /\ Volumeless
    /\ \E r \in ResultRows : Pos(r.Date) = W20 - 1 /\ IsNaN(r.MA20)
    /\ \E r \in ResultRows : Pos(r.Date) = W20 /\ IsNum(r.MA20)
    /\ \E r \in ResultRows : Pos(r.Date) = mfi_period - 1 /\ r.MFI = Num(50)

\* the provider's rows with Open > 0
Kept == {x \in {fetched.df.rows[i] : i \in 1..Len(fetched.df.rows)} : x.Open > 0}

\* the w latest kept rows up to the date of r
KeptWindow(r, w) ==
    {x \in Kept :
        /\ x.Date <= r.Date
        /\ Cardinality({y \in Kept : x.Date < y.Date /\ y.Date <= r.Date}) < w}

RECURSIVE SumClose(_)
SumClose(S) ==
    IF S = {} THEN 0
    ELSE LET x == CHOOSE x \in S : TRUE IN x.Close + SumClose(S \ {x})

\* C10: on the local-exchange branch no returned row has Open <= 0, every
\* returned row is a provider row, the rows keep their order, a lookback that
\* covers the series returns every provider row with Open > 0, and the
\* indicators are those of the series without the dropped rows: MA5 is the
\* mean close of the five latest rows with Open > 0.
C10_OpenGuard ==
    (Computed /\ CallBranch = "krx") =>
        /\ \A r \in ResultRows :
              /\ r.Open > 0
              /\ \E x \in Kept :
                    /\ x.Date = r.Date /\ x.Open = r.Open /\ x.High = r.High
                    /\ x.Low = r.Low /\ x.Close = r.Close /\ x.Volume = r.Volume
              /\ IF Cardinality(KeptWindow(r, W5)) = W5
                 THEN IsNum(r.MA5) /\ r.MA5.n * W5 = SumClose(KeptWindow(r, W5)) * r.MA5.d
                 ELSE IsNaN(r.MA5)
        /\ \A i \in 1..(Len(result.rows) - 1) :
              result.rows[i].Date < result.rows[i + 1].Date
        /\ (req.days = 0 \/ req.days >= Cardinality(Kept))
              => {r.Date : r \in ResultRows} = {x.Date : x \in Kept}

\* a local-exchange request whose provider table had a placeholder row: a
\* returned row's MA5 window reaches across the dropped row
C10_Witness ==
    /\ Computed
    /\ CallBranch = "krx"
    /\ \E r \in ResultRows :
          /\ IsNum(r.MA5)
          /\ \E i \in 1..Len(fetched.df.rows) :
                /\ fetched.df.rows[i].Open <= 0
                /\ fetched.df.rows[i].Date < r.Date
                /\ \E x \in KeptWindow(r, W5) : x.Date < fetched.df.rows[i].Date

-----------------------------------------------------------------------------
(* Properties of the dispatch, the page helpers and the cache, continued.    *)

\* the router treats the ticker as a domestic equity: a bare 6-digit code or
\* a numeric code with a .KS/.KQ suffix
RoutedDomestic(ticker) ==
    Dispatch(clean_ticker(ticker)).branch \in {"krx", "recurse"}

\* C11: for every instrument the router treats as a domestic equity (a bare
\* 6-digit code as well as a code with a .KS/.KQ suffix) and every finite
\* price, round_price_if_korean returns an integer multiple of 50; for every
\* other instrument it returns the price unchanged.
C11_TickMultiple ==
    (rounded # NoRound /\ IsNum(rounded.price))
        => IF RoutedDomestic(rounded.ticker)
           THEN /\ IsNum(rounded.out)
                /\ rounded.out.d = 1
                /\ rounded.out.n % TICK = 0
           ELSE rounded.out = rounded.price

\* the cleaned ticker of the last request and its part before the first '.'
Cleaned == Upper(RStrip(LStrip(req.ticker)))
Stem == SplitFirst(Cleaned)
Suffixed == EndsWith(Cleaned, KS) \/ EndsWith(Cleaned, KQ)

\* the last request was the first one: it found the cache empty
FirstRequest == nreq = 1 /\ served \in {"miss", "raised"}

\* every provider call of the last request went to this adapter with this
\* symbol, and the first request made exactly one call
OnlyCalls(adapter, symbol) ==
    /\ \A i \in 1..Len(calls) :
          calls[i].adapter = adapter /\ calls[i].symbol = symbol
    /\ FirstRequest => Len(calls) = 1

KR10YT == <<"K", "R", "1", "0", "Y", "T", "=", "R", "R">>
JP10YT == <<"J", "P", "1", "0", "Y", "T", "=", "X", "X">>
FKS200 == <<"F", "K", "S", "2", "0", "0">>
USDKRW == <<"U", "S", "D", "/", "K", "R", "W">>
JPYKRW == <<"J", "P", "Y", "/", "K", "R", "W">>

\* the dispatch of the last request against an allow-list for the prefixed
\* route of adapter B: on the list, adapter B with the prefix; a currency
\* pair, adapter B without it; and anything else that is neither six digits
\* nor suffixed, adapter C; nothing else takes the two routes of adapter B
ListedDispatch(allowed) ==
    (served \in {"miss", "raised"} /\ calls # <<>>)
        => /\ CallBranch = "investing" <=> Cleaned \in allowed
           /\ Cleaned \in allowed => OnlyCalls("B", InvestingPrefix \o Cleaned)
           /\ CallBranch = "fx" <=> Cleaned \in {USDKRW, JPYKRW}
           /\ Cleaned \in {USDKRW, JPYKRW} => OnlyCalls("B", Cleaned)
           /\ (/\ ~(IsDigit(Cleaned) /\ Len(Cleaned) = 6)
               /\ ~Suffixed
               /\ Cleaned \notin allowed \cup {USDKRW, JPYKRW})
                  => OnlyCalls("C", Cleaned)

\* C13 as stated: the identifiers sent to adapter B with the provider prefix
\* are exactly the two bond-yield symbols, those sent to adapter B without
\* it exactly the two currency pairs, and every identifier that is not six
\* digits, not suffixed and in neither list goes to adapter C.
C13_TwoBondYields == ListedDispatch({KR10YT, JP10YT})

\* C13, amended: the same with an allow-list of three symbols for the
\* prefixed route: the two bond yields and the index-futures symbol FKS200.
C13_ThreeListed == ListedDispatch({KR10YT, JP10YT, FKS200})

\* a request for FKS200 reached adapter B with the provider prefix
C13_Witness ==
    /\ req.ticker = FKS200
    /\ served = "miss"
    /\ Len(calls) = 1
    /\ calls[1].adapter = "B"
    /\ calls[1].symbol = InvestingPrefix \o FKS200

\* two raw inputs differ only in letter case and surrounding whitespace
SameModuloCaseSpace(a, b) ==
    LET x == RStrip(LStrip(a))
        y == RStrip(LStrip(b))
    IN  /\ Len(x) = Len(y)
        /\ \A i \in 1..Len(x) : UpperChar(x[i]) = UpperChar(y[i])

\* empty or whitespace only
Blank(s) == \A i \in 1..Len(s) : s[i] \in Whitespace

EmptyCache == [k \in {} |-> 0]

\* C14: the dispatch is a total, deterministic function of the cleaned
\* identifier: the first request makes exactly one provider call, on a branch
\* and with a symbol that every raw input differing from it only in letter
\* case or surrounding whitespace would get as well; an empty or
\* whitespace-only input is cleaned to "" and goes to adapter C, and " tsla "
\* goes to adapter C as TSLA.
C14_DispatchByCleaned ==
    FirstRequest =>
        /\ Len(calls) = 1
        /\ \A raw \in RouterTickers :
              SameModuloCaseSpace(raw, req.ticker)
                  => Call(raw, req.days, EmptyCache, now, feed).calls = calls
        /\ Blank(req.ticker) =>
              calls[1] = [adapter |-> "C", symbol |-> <<>>, branch |-> "yf"]
        /\ req.ticker = <<" ", "t", "s", "l", "a", " ">> =>
              calls[1] = [adapter |-> "C", symbol |-> TSLA, branch |-> "yf"]

\* a request for " 005930.ks " reached adapter A with 005930, as 005930.KS
\* does
C14_Witness ==
    /\ req.ticker = <<" ">> \o T005930 \o <<".", "k", "s", " ">>
    /\ FirstRequest
    /\ calls = <<[adapter |-> "A", symbol |-> T005930, branch |-> "krx"]>>
    /\ SameModuloCaseSpace(req.ticker, T005930 \o KS)

\* C15: whenever the spread series has enough observations, the risk state
\* of the macro view is computed from the latest spread value and the value
\* from exactly 5 observations before the latest one.
C15_FiveObservationsEarlier ==
    (risk.out # "none" /\ Len(spread) >= WEEK_OBS + 1)
        => /\ risk.cur = spread[Len(spread)]
           /\ risk.prev = spread[Len(spread) - WEEK_OBS]

\* C16: on every bar after the first of the series (the filtered one on the
\* local-exchange branch), Vol_Breakout_Price is the bar's open plus half the
\* range, high - low, of the bar immediately before it in that series; on
\* the first bar it is undefined.
C16_VolBreakout ==
    Computed =>
        \A r \in ResultRows :
            LET j == Pos(r.Date)
                v == r.Vol_Breakout_Price
            IN  IF j = 1 THEN IsNaN(v)
                ELSE /\ IsNum(v)
                     /\ 2 * v.n =
                           (2 * r.Open + Series0[j - 1].High - Series0[j - 1].Low) * v.d

\* the whole filtered table came back: its first bar has no target, and a bar
\* right behind a dropped placeholder row takes the range of the kept bar
\* before that row
C16_Witness ==
    /\ Computed
    /\ CallBranch = "krx"
    /\ \E r \in ResultRows : Pos(r.Date) = 1 /\ IsNaN(r.Vol_Breakout_Price)
    /\ \E r \in ResultRows :
          /\ Pos(r.Date) > 1
          /\ Series0[Pos(r.Date) - 1].Date < r.Date - 1
          /\ IsNum(r.Vol_Breakout_Price)

\* C18: the columns are derived on the whole series before the trim: if the
\* series (the filtered one on the local-exchange branch) has n rows, the
\* lookback is at least 1 and n - lookback >= 19, then every returned row has
\* MA5, MA10, MA20 and BB_Mid defined.
C18_NoWarmUpInWindow ==
    (Computed /\ req.days >= 1 /\ Len(Series0) - req.days >= W20 - 1)
        => \A r \in ResultRows :
              IsNum(r.MA5) /\ IsNum(r.MA10) /\ IsNum(r.MA20) /\ IsNum(r.BB_Mid)

\* a lookback that leaves exactly 19 bars in front of the window: the first
\* returned row is bar 20 of the series, the first with MA20 defined
C18_Witness ==
    /\ Computed
    /\ req.days >= 1
    /\ Len(Series0) - req.days = W20 - 1
    /\ Len(result.rows) = req.days
    /\ Pos(result.rows[1].Date) = W20
    /\ IsNum(result.rows[1].MA20)
    /\ IsNum(result.rows[1].BB_Mid)

\* C17: a failed fetch is cached like a success: a request that ran the body
\* and got the empty table (the provider raised or had no rows) leaves it
\* stored under its key; every request for that key before creation time +
\* TTL returns the empty table, calls no provider and leaves the cache alone,
\* whatever the provider would answer by then; a provider is called for the
\* key again only once the entry has expired.
C17_FailureCached ==
    [][RequestStep =>
        LET key == req'
        IN  /\ (served' = "miss" /\ result'.rows = <<>>)
                  => /\ key \in DOMAIN cache'
                     /\ cache'[key] = [created |-> now, value |-> EmptyDF]
            /\ (FreshEntry(key) /\ cache[key].value.rows = <<>>)
                  => /\ result' = EmptyDF
                     /\ calls' = <<>>
                     /\ cache' = cache
            /\ (key \in DOMAIN cache /\ cache[key].value.rows = <<>> /\ calls' # <<>>)
                  => now >= cache[key].created + TTL]_vars

\* the provider failed at the first request for TSLA and has recovered since:
\* a later request inside the TTL is answered with the stored empty table
C17_Witness ==
    /\ req = Key(TSLA, MaxDays)
    /\ served = "hit"
    /\ calls = <<>>
    /\ result = EmptyDF
    /\ feed.status = "ok"
    /\ feed.df.rows # <<>>
    /\ cache[req].created < now
    /\ now < cache[req].created + TTL

=============================================================================
